---- MODULE Spec2Model ----
(***************************************************************************)
(* A model of client_bank_exchange_1c.py: the codec of the                 *)
(* 1CClientBankExchange text format (Cast, Field, Schema, Section and its  *)
(* subclasses, Document, Statement).                                       *)
(*                                                                         *)
(* Representation.                                                         *)
(*   A Python str is a sequence of atoms.  The atoms of a value are single *)
(*   characters ("1", ".", " ", "a"); the atoms of a format key are the    *)
(*   words the keys of the format are built from, transliterated to ASCII  *)
(*   ("Platelshchik" \o "INN" is the key of Payer.inn), so that one key    *)
(*   can be a proper prefix of another, as in the source.  A text is one   *)
(*   such sequence, its lines separated by the atom NL.                    *)
(*   A Python value is a record tagged by t: none, str, date, time, dec,   *)
(*   list, set, obj (a Section object: cls and the attributes f), stmt,    *)
(*   and err for a raised exception (kind is the exception class, at the   *)
(*   raise site).                                                          *)
(***************************************************************************)
EXTENDS Integers, Sequences, FiniteSets, TLC

VARIABLES op, arg, res, src

vars == <<op, arg, res, src>>

-----------------------------------------------------------------------------
(* Python values *)

None == [t |-> "none"]

Str(s) == [t |-> "str", s |-> s]

Date(y, m, d) == [t |-> "date", y |-> y, m |-> m, d |-> d]

Time(h, mi, s) == [t |-> "time", h |-> h, mi |-> mi, s |-> s]

\* decimal.Decimal: sign, coefficient and exponent, value = (-1)^neg * coef * 10^exp
Decimal(neg, coef, exp) == [t |-> "dec", neg |-> neg, coef |-> coef, exp |-> exp]

List(items) == [t |-> "list", items |-> items]

Err(kind, at) == [t |-> "err", kind |-> kind, at |-> at]

IsErr(v) == v.t = "err"

\* bool(v) for the values the code tests with `if obj`, `not value`, `if attr`
Truthy(v) ==
    CASE v.t = "none" -> FALSE
      [] v.t = "str"  -> v.s # <<>>
      [] v.t = "list" -> v.items # <<>>
      [] v.t = "set"  -> v.items # {}
      [] OTHER        -> TRUE

-----------------------------------------------------------------------------
(* str methods *)

NL == "\n"

Digits == <<"0", "1", "2", "3", "4", "5", "6", "7", "8", "9">>

IsDigit(c) == \E i \in 1..10 : Digits[i] = c

DigitVal(c) == (CHOOSE i \in 1..10 : Digits[i] = c) - 1

IsSpace(c) == c \in {" ", NL}

RECURSIVE Count(_, _)
\* s.count(c) for a one-character c
Count(s, c) ==
    IF s = <<>> THEN 0
    ELSE (IF Head(s) = c THEN 1 ELSE 0) + Count(Tail(s), c)

RECURSIVE Replace(_, _, _, _)
\* s.replace(old, new, count) for a one-character old: the first count
\* occurrences, every occurrence when count is negative
Replace(s, old, new, count) ==
    IF s = <<>> \/ count = 0 THEN s
    ELSE IF Head(s) = old
         THEN new \o Replace(Tail(s), old, new, IF count < 0 THEN count ELSE count - 1)
         ELSE <<Head(s)>> \o Replace(Tail(s), old, new, count)

RECURSIVE LStrip(_)
LStrip(s) == IF s # <<>> /\ IsSpace(Head(s)) THEN LStrip(Tail(s)) ELSE s

RECURSIVE RStrip(_)
RStrip(s) ==
    IF s # <<>> /\ IsSpace(s[Len(s)]) THEN RStrip(SubSeq(s, 1, Len(s) - 1)) ELSE s

\* s.strip()
Strip(s) == RStrip(LStrip(s))

RECURSIVE Keep(_, _)
\* re.sub(r'[^...]', '', s): the characters of s that are in the class
Keep(s, class) ==
    IF s = <<>> THEN <<>>
    ELSE (IF Head(s) \in class THEN <<Head(s)>> ELSE <<>>) \o Keep(Tail(s), class)

\* the list with the elements f[1], ..., f[n], each computed once
AsList(f) == <<>> \o f

\* F(x) for x the value of v: v is computed once, however often F uses x
Let(v, F(_)) == CHOOSE r \in {F(x) : x \in {v}} : TRUE

StartsWith(s, p) == Len(s) >= Len(p) /\ SubSeq(s, 1, Len(p)) = p

RECURSIVE Pow10(_)
Pow10(n) == IF n = 0 THEN 1 ELSE 10 * Pow10(n - 1)

RECURSIVE IntOf(_)
\* int(s) for a string of digits ('' gives 0)
IntOf(s) ==
    IF s = <<>> THEN 0
    ELSE 10 * IntOf(SubSeq(s, 1, Len(s) - 1)) + DigitVal(s[Len(s)])

RECURSIVE StrOfInt(_)
\* str(n) for n >= 0
StrOfInt(n) ==
    IF n < 10 THEN <<Digits[n + 1]>>
    ELSE StrOfInt(n \div 10) \o <<Digits[(n % 10) + 1]>>

RECURSIVE Zeros(_)
Zeros(n) == IF n <= 0 THEN <<>> ELSE <<"0">> \o Zeros(n - 1)

\* n rendered with at least w digits (%d, %m, %H ... of strftime)
Pad(n, w) == LET s == StrOfInt(n) IN Zeros(w - Len(s)) \o s

-----------------------------------------------------------------------------
(* The values the codec builds: decimal.Decimal, datetime.date, datetime.time *)

IsLeap(y) == (y % 4 = 0 /\ y % 100 # 0) \/ y % 400 = 0

DaysIn(m, y) ==
    IF m = 2 THEN (IF IsLeap(y) THEN 29 ELSE 28)
    ELSE IF m \in {4, 6, 9, 11} THEN 30 ELSE 31

\* the position of the first sep in s at or after i, Len(s) + 1 if there is none
NextSep(s, sep, i) ==
    CHOOSE j \in i..(Len(s) + 1) :
        (j = Len(s) + 1 \/ s[j] = sep) /\ \A k \in i..(j - 1) : s[k] # sep

\* the elements of a set of numbers, ascending
Ascending(S) ==
    Let(S, LAMBDA T :
    Let([i \in T |-> Cardinality({j \in T : j < i})] @@ <<>>, LAMBDA rank :
        AsList([k \in 1..Cardinality(T) |-> CHOOSE i \in T : rank[i] = k - 1])))

\* s.split(sep): the pieces of s between the separators sep
Split(s, sep) ==
    Let(Ascending({i \in 1..Len(s) : s[i] = sep}), LAMBDA at :
        AsList([k \in 1..(Len(at) + 1) |->
            SubSeq(s, IF k = 1 THEN 1 ELSE at[k - 1] + 1,
                      IF k = Len(at) + 1 THEN Len(s) ELSE at[k] - 1)]))

AllDigits(s) == \A i \in 1..Len(s) : IsDigit(s[i])

\* Decimal(s) for a string of digits, periods and minus signs (all that
\* str_to_amount leaves): [-]digits[.digits] or [-].digits, else InvalidOperation
DecimalOfStr(s) ==
    LET neg  == s # <<>> /\ Head(s) = "-"
        body == IF neg THEN Tail(s) ELSE s
        dots == Count(body, ".")
        ok   == /\ \A i \in 1..Len(body) : IsDigit(body[i]) \/ body[i] = "."
                /\ dots <= 1
                /\ Len(body) - dots >= 1
        dot  == IF dots = 0 THEN Len(body) + 1
                ELSE CHOOSE i \in 1..Len(body) : body[i] = "."
    IN  IF ~ok THEN Err("InvalidOperation", "Decimal")
        ELSE Decimal(neg, IntOf(Replace(body, ".", <<>>, -1)),
                     IF dots = 0 THEN 0 ELSE -(Len(body) - dot))

\* str(d) of a Decimal with exponent <= 0 (plain notation: no grouping, a period
\* before the last -exp digits)
StrOfDecimal(d) ==
    LET ds   == StrOfInt(d.coef)
        left == d.exp + Len(ds)
        sign == IF d.neg THEN <<"-">> ELSE <<>>
    IN  sign \o
        (IF d.exp = 0 THEN ds
         ELSE IF left <= 0 THEN <<"0", ".">> \o Zeros(-left) \o ds
         ELSE SubSeq(ds, 1, left) \o <<".">> \o SubSeq(ds, left + 1, Len(ds)))

\* x + y of two Python values: Decimal.__add__ keeps the smaller exponent and
\* adds exactly (within the precision of the context); anything else than two
\* Decimals raises TypeError
DecimalAdd(x, y) ==
    IF IsErr(x) THEN x
    ELSE IF x.t # "dec" \/ y.t # "dec" THEN Err("TypeError", "+")
    ELSE LET e   == IF x.exp < y.exp THEN x.exp ELSE y.exp
             vx  == (IF x.neg THEN -1 ELSE 1) * x.coef * Pow10(x.exp - e)
             vy  == (IF y.neg THEN -1 ELSE 1) * y.coef * Pow10(y.exp - e)
             sum == vx + vy
         IN  Decimal(sum < 0 \/ (sum = 0 /\ x.neg /\ y.neg),
                     IF sum < 0 THEN -sum ELSE sum, e)

NoneStr == <<"N", "o", "n", "e">>

RECURSIVE ReprItems(_)
\* the items of repr(list) for a list of str and None: 'a', None, 'b'
ReprItems(items) ==
    IF items = <<>> THEN <<>>
    ELSE (IF Head(items).t = "none" THEN NoneStr
          ELSE <<"'">> \o Head(items).s \o <<"'">>)
         \o (IF Len(items) > 1 THEN <<",", " ">> ELSE <<>>)
         \o ReprItems(Tail(items))

\* str(obj) for the objects the casts are given
PyStr(obj) ==
    CASE obj.t = "none" -> NoneStr
      [] obj.t = "str"  -> obj.s
      [] obj.t = "dec"  -> StrOfDecimal(obj)
      [] obj.t = "list" -> <<"[">> \o ReprItems(obj.items) \o <<"]">>

\* datetime.strptime(s, '%d.%m.%Y').date()
StrpDate(s) ==
    LET p == Split(s, ".")
    IN  IF /\ Len(p) = 3
           /\ \A i \in 1..3 : AllDigits(p[i])
           /\ Len(p[1]) \in 1..2 /\ Len(p[2]) \in 1..2 /\ Len(p[3]) = 4
           /\ IntOf(p[2]) \in 1..12
           /\ IntOf(p[3]) >= 1
           /\ IntOf(p[1]) \in 1..DaysIn(IntOf(p[2]), IntOf(p[3]))
        THEN Date(IntOf(p[3]), IntOf(p[2]), IntOf(p[1]))
        ELSE Err("ValueError", "strptime")

\* datetime.strptime(s, '%H:%M:%S').time()
StrpTime(s) ==
    LET p == Split(s, ":")
    IN  IF /\ Len(p) = 3
           /\ \A i \in 1..3 : AllDigits(p[i]) /\ Len(p[i]) \in 1..2
           /\ IntOf(p[1]) \in 0..23
           /\ IntOf(p[2]) \in 0..59
           /\ IntOf(p[3]) \in 0..61
        THEN Time(IntOf(p[1]), IntOf(p[2]), IntOf(p[3]))
        ELSE Err("ValueError", "strptime")

-----------------------------------------------------------------------------
(* class Cast.  cast_from_text is given the str a regex captured; cast_to_text
   is given an attribute value. *)

\* str_to_text returning a non-empty str as it is
str_to_text_raw(obj) == IF obj # <<>> THEN Str(obj) ELSE None

str_to_text(obj) ==
    IF obj # <<>> /\ Strip(obj) # <<>> THEN Str(Strip(obj)) ELSE None

str_to_date(obj) == IF obj # <<>> THEN StrpDate(obj) ELSE None

str_to_time(obj) == IF obj # <<>> THEN StrpTime(obj) ELSE None

AmountChars == {"0", "1", "2", "3", "4", "5", "6", "7", "8", "9", ",", ".", "-"}

str_to_amount(obj) ==
    DecimalOfStr(
        Replace(
            Replace(
                Replace(
                    Replace(Keep(obj, AmountChars), "'", <<>>, -1),
                    " ", <<>>, -1),
                ",", <<".">>, -1),
            ".", <<>>, Count(obj, ".") - 1))

text_to_str(obj) == IF Truthy(obj) THEN Strip(PyStr(obj)) ELSE <<>>

date_to_str(obj) ==
    IF Truthy(obj)
    THEN Pad(obj.d, 2) \o <<".">> \o Pad(obj.m, 2) \o <<".">> \o StrOfInt(obj.y)
    ELSE <<>>

time_to_str(obj) ==
    IF Truthy(obj)
    THEN Pad(obj.h, 2) \o <<":">> \o Pad(obj.mi, 2) \o <<":">> \o Pad(obj.s, 2)
    ELSE <<>>

amount_to_str(obj) == Replace(PyStr(obj), ",", <<".">>, -1)

-----------------------------------------------------------------------------
(* class Type: the pair of casts of each field type *)

cast_from_text(type, s) ==
    CASE type = "TEXT"   -> str_to_text(s)
      [] type = "DATE"   -> str_to_date(s)
      [] type = "TIME"   -> str_to_time(s)
      [] type = "AMOUNT" -> str_to_amount(s)
      [] type = "ARRAY"  -> str_to_text(s)
      [] type = "FLAG"   -> str_to_text(s)

cast_to_text(type, v) ==
    CASE type = "TEXT"   -> text_to_str(v)
      [] type = "DATE"   -> date_to_str(v)
      [] type = "TIME"   -> time_to_str(v)
      [] type = "AMOUNT" -> amount_to_str(v)
      [] type = "ARRAY"  -> text_to_str(v)
      [] type = "FLAG"   -> text_to_str(v)

-----------------------------------------------------------------------------
(* class Required, class Field and the Schema of every Section class.
   A key is written as the words it is built from, transliterated:
   Sektsiya, Rasch, Schet, Konets, Dokument, Platelshchik, Poluchatel, Data, ... *)

NONE      == {}
TO_BANK   == {"TO_BANK"}
FROM_BANK == {"FROM_BANK"}
BOTH      == TO_BANK \cup FROM_BANK

\* one entry of Schema.to_dict(): the attribute name and its Field
Field(attr, key, required, type) ==
    [attr |-> attr, key |-> key, required |-> required, type |-> type]

HeaderSchema == <<
    Field("format_name", <<"1CClientBankExchange">>, BOTH, "FLAG"),
    Field("format_version", <<"Versiya", "Formata">>, BOTH, "TEXT"),
    Field("encoding", <<"Kod", "irovka">>, BOTH, "TEXT"),
    Field("sender", <<"Otpravitel">>, TO_BANK, "TEXT"),
    Field("receiver", <<"Poluchatel">>, FROM_BANK, "TEXT"),
    Field("creation_date", <<"Data", "Sozdaniya">>, NONE, "DATE"),
    Field("creation_time", <<"Vremya", "Sozdaniya">>, NONE, "TIME"),
    Field("filter_date_since", <<"Data", "Nachala">>, BOTH, "DATE"),
    Field("filter_date_till", <<"Data", "Kontsa">>, BOTH, "DATE"),
    Field("filter_account_numbers", <<"Rasch", "Schet">>, BOTH, "ARRAY"),
    Field("filter_document_types", <<"Dokument">>, NONE, "ARRAY") >>

BalanceSchema == <<
    Field("tag_begin", <<"Sektsiya", "Rasch", "Schet">>, NONE, "FLAG"),
    Field("date_since", <<"Data", "Nachala">>, FROM_BANK, "DATE"),
    Field("date_till", <<"Data", "Kontsa">>, NONE, "DATE"),
    Field("account_number", <<"Rasch", "Schet">>, FROM_BANK, "TEXT"),
    Field("initial_balance", <<"Nachalnyi", "Ostatok">>, FROM_BANK, "AMOUNT"),
    Field("total_income", <<"Vsego", "Postupilo">>, NONE, "AMOUNT"),
    Field("total_expense", <<"Vsego", "Spisano">>, NONE, "AMOUNT"),
    Field("final_balance", <<"Konechnyi", "Ostatok">>, NONE, "AMOUNT"),
    Field("tag_end", <<"Konets", "Rasch", "Schet">>, NONE, "FLAG") >>

ReceiptSchema == <<
    Field("date", <<"Kvitantsiya", "Data">>, NONE, "DATE"),
    Field("time", <<"Kvitantsiya", "Vremya">>, NONE, "TIME"),
    Field("content", <<"Kvitantsiya", "Soderzhanie">>, NONE, "TEXT") >>

PayerSchema == <<
    Field("account", <<"Platelshchik", "Schet">>, BOTH, "TEXT"),
    Field("date_charged", <<"Data", "Spisano">>, FROM_BANK, "DATE"),
    Field("name", <<"Platelshchik">>, TO_BANK, "TEXT"),
    Field("inn", <<"Platelshchik", "INN">>, BOTH, "TEXT"),
    Field("l1_name", <<"Platelshchik", "1">>, TO_BANK, "TEXT"),
    Field("l2_account_number", <<"Platelshchik", "2">>, NONE, "TEXT"),
    Field("l3_bank", <<"Platelshchik", "3">>, NONE, "TEXT"),
    Field("l4_city", <<"Platelshchik", "4">>, NONE, "TEXT"),
    Field("account_number", <<"Platelshchik", "Rasch", "Schet">>, TO_BANK, "TEXT"),
    Field("bank_1_name", <<"Platelshchik", "Bank", "1">>, TO_BANK, "TEXT"),
    Field("bank_2_city", <<"Platelshchik", "Bank", "2">>, TO_BANK, "TEXT"),
    Field("bank_bic", <<"Platelshchik", "BIK">>, TO_BANK, "TEXT"),
    Field("bank_corr_account", <<"Platelshchik", "Korschet">>, TO_BANK, "TEXT") >>

ReceiverSchema == <<
    Field("account", <<"Poluchatel", "Schet">>, BOTH, "TEXT"),
    Field("date_received", <<"Data", "Postupilo">>, FROM_BANK, "TEXT"),
    Field("name", <<"Poluchatel">>, TO_BANK, "TEXT"),
    Field("inn", <<"Poluchatel", "INN">>, BOTH, "TEXT"),
    Field("l1_name", <<"Poluchatel", "1">>, TO_BANK, "TEXT"),
    Field("l2_account_number", <<"Poluchatel", "2">>, NONE, "TEXT"),
    Field("l3_bank", <<"Poluchatel", "3">>, NONE, "TEXT"),
    Field("l4_city", <<"Poluchatel", "4">>, NONE, "TEXT"),
    Field("account_number", <<"Poluchatel", "Rasch", "Schet">>, TO_BANK, "TEXT"),
    Field("bank_1_name", <<"Poluchatel", "Bank", "1">>, TO_BANK, "TEXT"),
    Field("bank_2_city", <<"Poluchatel", "Bank", "2">>, TO_BANK, "TEXT"),
    Field("bank_bic", <<"Poluchatel", "BIK">>, TO_BANK, "TEXT"),
    Field("bank_corr_account", <<"Poluchatel", "Korschet">>, TO_BANK, "TEXT") >>

PaymentSchema == <<
    Field("payment_type", <<"Vid", "Platezha">>, NONE, "TEXT"),
    Field("operation_type", <<"Vid", "Oplaty">>, TO_BANK, "TEXT"),
    Field("code", <<"Kod">>, NONE, "TEXT"),
    Field("purpose", <<"Naznachenie", "Platezha">>, NONE, "TEXT"),
    Field("purpose_l1", <<"Naznachenie", "Platezha", "1">>, NONE, "TEXT"),
    Field("purpose_l2", <<"Naznachenie", "Platezha", "2">>, NONE, "TEXT"),
    Field("purpose_l3", <<"Naznachenie", "Platezha", "3">>, NONE, "TEXT"),
    Field("purpose_l4", <<"Naznachenie", "Platezha", "4">>, NONE, "TEXT"),
    Field("purpose_l5", <<"Naznachenie", "Platezha", "5">>, NONE, "TEXT"),
    Field("purpose_l6", <<"Naznachenie", "Platezha", "6">>, NONE, "TEXT") >>

TaxSchema == <<
    Field("originator_status", <<"Status", "Sostavitelya">>, BOTH, "TEXT"),
    Field("payer_kpp", <<"Platelshchik", "KPP">>, BOTH, "TEXT"),
    Field("receiver_kpp", <<"Poluchatel", "KPP">>, BOTH, "TEXT"),
    Field("kbk", <<"Pokazatel", "KBK">>, BOTH, "TEXT"),
    Field("okato", <<"OKATO">>, BOTH, "TEXT"),
    Field("basis", <<"Pokazatel", "Osnovaniya">>, BOTH, "TEXT"),
    Field("period", <<"Pokazatel", "Perioda">>, BOTH, "TEXT"),
    Field("number", <<"Pokazatel", "Nomera">>, BOTH, "TEXT"),
    Field("date", <<"Pokazatel", "Daty">>, BOTH, "TEXT"),
    Field("type", <<"Pokazatel", "Tipa">>, NONE, "TEXT") >>

SpecialSchema == <<
    Field("priority", <<"Ocherednost">>, NONE, "TEXT"),
    Field("term_of_acceptance", <<"Srok", "Aktsepta">>, NONE, "TEXT"),
    Field("letter_of_credit_type", <<"Vid", "Akkreditiva">>, NONE, "TEXT"),
    Field("maturity", <<"Srok", "Platezha">>, NONE, "TEXT"),
    Field("payment_condition_1", <<"Uslovie", "Oplaty", "1">>, NONE, "TEXT"),
    Field("payment_condition_2", <<"Uslovie", "Oplaty", "2">>, NONE, "TEXT"),
    Field("payment_condition_3", <<"Uslovie", "Oplaty", "3">>, NONE, "TEXT"),
    Field("by_submission", <<"Platezh", "Po", "Predst">>, NONE, "TEXT"),
    Field("extra_conditions", <<"Dopoln", "Usloviya">>, NONE, "TEXT"),
    Field("supplier_account_number", <<"Nomer", "Scheta", "Postavshchika">>, NONE, "TEXT"),
    Field("docs_sent_date", <<"Data", "Otsylki", "Dok">>, NONE, "TEXT") >>

DocumentSchema == <<
    Field("document_type", <<"Sektsiya", "Dokument">>, NONE, "TEXT"),
    Field("number", <<"Nomer">>, BOTH, "TEXT"),
    Field("date", <<"Data">>, BOTH, "DATE"),
    Field("amount", <<"Summa">>, BOTH, "AMOUNT") >>

\* cls.Schema: the class attributes of the Schema class, as declared
SchemaOf(cls) ==
    CASE cls = "Header"   -> HeaderSchema
      [] cls = "Balance"  -> BalanceSchema
      [] cls = "Receipt"  -> ReceiptSchema
      [] cls = "Payer"    -> PayerSchema
      [] cls = "Receiver" -> ReceiverSchema
      [] cls = "Payment"  -> PaymentSchema
      [] cls = "Tax"      -> TaxSchema
      [] cls = "Special"  -> SpecialSchema
      [] cls = "Document" -> DocumentSchema

\* to_dict enumerating the class attributes last to first
to_dict_reversed(cls) ==
    [i \in 1..Len(SchemaOf(cls)) |-> SchemaOf(cls)[Len(SchemaOf(cls)) + 1 - i]]

\* Schema.to_dict(): cls.__dict__ keeps the declaration order
to_dict(cls) == SchemaOf(cls)

\* Document.Subsections, in the order from_text and to_text take them
Subsections == <<"receipt", "payer", "receiver", "payment", "tax", "special">>

SubsectionClass(a) ==
    CASE a = "receipt"  -> "Receipt"
      [] a = "payer"    -> "Payer"
      [] a = "receiver" -> "Receiver"
      [] a = "payment"  -> "Payment"
      [] a = "tax"      -> "Tax"
      [] a = "special"  -> "Special"

\* the attributes cls.__init__ sets
Attrs(cls) ==
    {to_dict(cls)[i].attr : i \in 1..Len(to_dict(cls))}
    \cup (IF cls = "Document" THEN {Subsections[i] : i \in 1..6} ELSE {})

\* a Section object of class cls with the attribute values f
Obj(cls, f) == [t |-> "obj", cls |-> cls, f |-> f @@ <<>>]

\* cls(): every attribute None
New(cls) == Obj(cls, [a \in Attrs(cls) |-> None])

-----------------------------------------------------------------------------
(* Field.get_value_from_text *)

\* FindAll matching every line that starts with the key: the rest of the line
\* after its first "="
FindAll_prefix(field, text) ==
    Let(field.key, LAMBDA prefix :
    Let(text, LAMBDA s :
    Let(Ascending({i \in 1..(Len(s) - Len(prefix) + 1) :
                        /\ s[i] = prefix[1]
                        /\ (i = 1 \/ s[i - 1] = NL)
                        /\ SubSeq(s, i, i + Len(prefix) - 1) = prefix}),
        LAMBDA starts :
            AsList([k \in 1..Len(starts) |->
                SubSeq(s, (IF NextSep(s, "=", starts[k]) < NextSep(s, NL, starts[k])
                           THEN NextSep(s, "=", starts[k])
                           ELSE NextSep(s, NL, starts[k])) + 1,
                          NextSep(s, NL, starts[k]) - 1)]))))

\* re.findall('^' + key + '=(.*?)$', text, re.MULTILINE): for every position
\* at the start of a line where key= stands, the rest of that line
FindAll(field, text) ==
    Let(field.key \o <<"=">>, LAMBDA prefix :
    Let(text, LAMBDA s :
    Let(Ascending({i \in 1..(Len(s) - Len(prefix) + 1) :
                        /\ s[i] = prefix[1]
                        /\ (i = 1 \/ s[i - 1] = NL)
                        /\ SubSeq(s, i, i + Len(prefix) - 1) = prefix}),
        LAMBDA starts :
            AsList([k \in 1..Len(starts) |->
                SubSeq(s, starts[k] + Len(prefix), NextSep(s, NL, starts[k]) - 1)]))))

AnyErr(vals) == \E i \in 1..Len(vals) : IsErr(vals[i])

\* the exception that ends a loop over vals: the first error in order
FirstErr(vals) ==
    vals[CHOOSE i \in 1..Len(vals) : IsErr(vals[i]) /\ \A j \in 1..(i - 1) : ~IsErr(vals[j])]

\* [cast_from_text(item) for item in found]
CastAll(type, found) ==
    Let(AsList([i \in 1..Len(found) |-> cast_from_text(type, found[i])]), LAMBDA vals :
        IF AnyErr(vals) THEN FirstErr(vals) ELSE List(vals))

\* value_of_found without the multiplicity check: the first occurrence wins
value_of_found_first(field, found) ==
    IF found = <<>> THEN None
    ELSE IF field.type = "ARRAY" /\ Len(found) > 1 THEN CastAll(field.type, found)
    ELSE cast_from_text(field.type, found[1])

\* the body of get_value_from_text after the findall
value_of_found(field, found) ==
    IF Len(found) > 1 /\ field.type # "ARRAY" THEN Err("ValueError", "multiplicity")
    ELSE IF found = <<>> THEN None
    ELSE IF field.type = "ARRAY" /\ Len(found) > 1 THEN CastAll(field.type, found)
    ELSE cast_from_text(field.type, found[1])

\* field.get_value_from_text(source_text); source_text is a Python value, and
\* re.findall raises TypeError unless it is a str
get_value_from_text(field, source_text) ==
    IF source_text.t # "str" THEN Err("TypeError", "re.findall")
    ELSE Let(FindAll(field, source_text.s), LAMBDA found : value_of_found(field, found))

-----------------------------------------------------------------------------
(* class Section *)

\* Section.from_text(cls, section_text): the object whose schema attributes are
\* the values found, or the first exception a field raises
Section_from_text(cls, section_text) ==
    Let(to_dict(cls), LAMBDA sch :
    Let(AsList([i \in 1..Len(sch) |-> get_value_from_text(sch[i], section_text)]),
        LAMBDA vals :
            IF AnyErr(vals) THEN FirstErr(vals)
            ELSE Obj(cls, [a \in Attrs(cls) |->
                     IF \E i \in 1..Len(sch) : sch[i].attr = a
                     THEN vals[CHOOSE i \in 1..Len(sch) : sch[i].attr = a]
                     ELSE None])))

\* '\n'.join(parts) of strs
RECURSIVE Join(_, _)
Join(parts, sep) ==
    IF parts = <<>> THEN <<>>
    ELSE IF Len(parts) = 1 THEN parts[1]
    ELSE parts[1] \o sep \o Join(Tail(parts), sep)

\* filter(pred, parts) for the two filters of the code: x != '' and bool(x)
RECURSIVE NonEmpty(_)
NonEmpty(parts) ==
    IF parts = <<>> THEN <<>>
    ELSE (IF Head(parts) # <<>> THEN <<Head(parts)>> ELSE <<>>) \o NonEmpty(Tail(parts))

\* get_line that skips every empty value, required or not
get_line_skip_empty(field, attr) ==
    LET value == cast_to_text(field.type, attr)
    IN  IF value = <<>> THEN <<>>
        ELSE IF field.type = "FLAG" THEN field.key
        ELSE field.key \o <<"=">> \o value

\* to_text.get_text.get_line
get_line(field, attr) ==
    LET is_flag  == field.type = "FLAG"
        name     == field.key
        value    == cast_to_text(field.type, attr)
        required == "TO_BANK" \in field.required
    IN  IF ~required /\ value = <<>> THEN <<>>
        ELSE IF is_flag THEN name
        ELSE name \o <<"=">> \o value

\* the items `for item in attr` yields: the elements of a list, the characters
\* of a str
Iter(attr) ==
    IF attr.t = "str" THEN [i \in 1..Len(attr.s) |-> Str(<<attr.s[i]>>)]
    ELSE attr.items

\* to_text.get_text
get_text(field, attr) ==
    IF Truthy(attr) /\ field.type = "ARRAY"
    THEN Join([i \in 1..Len(Iter(attr)) |-> get_line(field, Iter(attr)[i])], <<NL>>)
    ELSE get_line(field, attr)

\* to_text.validate_attr: None, or the ValueError it raises
validate_attr(field, attr) ==
    LET is_flag  == field.type = "FLAG"
        value    == cast_to_text(field.type, attr)
        required == "TO_BANK" \in field.required
    IN  IF required /\ ~is_flag /\ value = <<>>
        THEN [t |-> "err", kind |-> "ValueError", at |-> "validate_attr", name |-> field.key]
        ELSE None

\* Section.to_text(self, validate): the text as a str value, or the exception
Section_to_text(self, validate) ==
    Let(to_dict(self.cls), LAMBDA sch :
    Let(AsList([i \in 1..Len(sch) |->
            IF validate THEN validate_attr(sch[i], self.f[sch[i].attr]) ELSE None]),
        LAMBDA checks :
            IF AnyErr(checks) THEN FirstErr(checks)
            ELSE Let(AsList([i \in 1..Len(sch) |-> get_text(sch[i], self.f[sch[i].attr])]),
                     LAMBDA result : Str(Join(NonEmpty(result), <<NL>>)))))

-----------------------------------------------------------------------------
(* Section.Meta.regex and Section.extract_section_text *)

SektsiyaRaschSchet == <<"Sektsiya", "Rasch", "Schet">>
KonetsRaschSchet   == <<"Konets", "Rasch", "Schet">>
SektsiyaDokument   == <<"Sektsiya", "Dokument">>
KonetsDokumenta    == <<"Konets", "Dokumenta">>
KonetsFaila        == <<"Konets", "Faila">>

\* the positions >= from at which pat occurs in text
Occ(text, pat, from) ==
    {i \in from..(Len(text) - Len(pat) + 1) :
        text[i] = pat[1] /\ SubSeq(text, i, i + Len(pat) - 1) = pat}

Min(S) == Let(S, LAMBDA T : CHOOSE x \in T : \A y \in T : x <= y)

RECURSIVE Between(_, _, _, _, _)
\* re.compile(begin + '(.*?)' + end, re.S).findall(text) from position from on:
\* the non-overlapping shortest spans; keep says whether the group holds begin
Between(text, begin, end, keep, from) ==
    Let(Occ(text, begin, from), LAMBDA bs :
        IF bs = {} THEN <<>>
        ELSE Let(Min(bs), LAMBDA i :
             Let(Occ(text, end, i + Len(begin)), LAMBDA es :
                 IF es = {} THEN <<>>
                 ELSE Let(Min(es), LAMBDA j :
                        <<SubSeq(text, IF keep THEN i ELSE i + Len(begin), j - 1)>>
                        \o Between(text, begin, end, keep, j + Len(end))))))

\* cls.Meta.regex.findall(text); Header: r'^(.*?)Sektsiya' with re.S
RegexFindAll(cls, text) ==
    CASE cls = "Header" ->
           Let(Occ(text, <<"Sektsiya">>, 1), LAMBDA found :
               IF found = {} THEN <<>> ELSE <<SubSeq(text, 1, Min(found) - 1)>>)
      [] cls = "Balance"  -> Between(text, SektsiyaRaschSchet, KonetsRaschSchet, FALSE, 1)
      [] cls = "Document" -> Between(text, SektsiyaDokument, KonetsDokumenta, TRUE, 1)

HasRegex(cls) == cls \in {"Header", "Balance", "Document"}

\* Section.extract_section_text(cls, source_text): None, one str or a list of str
extract_section_text(cls, source_text) ==
    IF ~HasRegex(cls) THEN Err("ValueError", "extract_section_text")
    ELSE IF source_text.t # "str" THEN Err("TypeError", "regex.findall")
    ELSE Let(RegexFindAll(cls, source_text.s), LAMBDA result :
             IF result = <<>> THEN None
             ELSE IF Len(result) = 1 THEN Str(result[1])
             ELSE List(AsList([i \in 1..Len(result) |-> Str(result[i])])))

-----------------------------------------------------------------------------
(* class Header, class Balance *)

\* Header.from_text decoding the header from the whole source text
Header_from_text_whole(source_text) ==
    Let(extract_section_text("Header", source_text), LAMBDA section_text :
        IF IsErr(section_text) THEN section_text
        ELSE Section_from_text("Header", source_text))

Header_from_text(source_text) ==
    Let(extract_section_text("Header", source_text), LAMBDA section_text :
        IF IsErr(section_text) THEN section_text
        ELSE Section_from_text("Header", section_text))

Balance_to_text(self, validate) ==
    Let(Section_to_text(self, validate), LAMBDA content :
        IF IsErr(content) THEN content
        ELSE Str(SektsiyaRaschSchet \o <<NL>> \o content.s \o <<NL>> \o KonetsRaschSchet))

Balance_from_text(source_text) ==
    Let(extract_section_text("Balance", source_text), LAMBDA section_text :
        IF IsErr(section_text) THEN section_text
        ELSE Section_from_text("Balance", section_text))

-----------------------------------------------------------------------------
(* class Document *)

\* the body of the loop of Document.from_text for one span
Document_of_span(section_text) ==
    Let(Section_from_text("Document", section_text), LAMBDA obj :
        IF IsErr(obj) THEN obj
        ELSE Let(AsList([i \in 1..6 |->
                    Section_from_text(SubsectionClass(Subsections[i]), section_text)]),
                 LAMBDA subs :
                    IF AnyErr(subs) THEN FirstErr(subs)
                    ELSE Obj("Document",
                             [a \in Attrs("Document") |->
                                IF \E i \in 1..6 : Subsections[i] = a
                                THEN subs[CHOOSE i \in 1..6 : Subsections[i] = a]
                                ELSE obj.f[a]])))

\* Document.from_text decoding every document from the whole source text
Document_from_text_whole(source_text) ==
    Let(extract_section_text("Document", source_text), LAMBDA found :
        IF IsErr(found) THEN found
        ELSE Let(IF found.t = "list" THEN found.items ELSE <<found>>, LAMBDA extracted :
             Let(AsList([i \in 1..Len(extracted) |-> Document_of_span(source_text)]),
                 LAMBDA results :
                    IF AnyErr(results) THEN FirstErr(results) ELSE List(results))))

Document_from_text(source_text) ==
    Let(extract_section_text("Document", source_text), LAMBDA found :
        IF IsErr(found) THEN found
        ELSE Let(IF found.t = "list" THEN found.items ELSE <<found>>, LAMBDA extracted :
             Let(AsList([i \in 1..Len(extracted) |-> Document_of_span(extracted[i])]),
                 LAMBDA results :
                    IF AnyErr(results) THEN FirstErr(results) ELSE List(results))))

\* str(x) of the sub-sections that are not None, in the order of the list
SectionTexts(self, validate) ==
    Let(SelectSeq(Subsections, LAMBDA a : self.f[a].t # "none"), LAMBDA present :
        AsList([i \in 1..Len(present) |-> Section_to_text(self.f[present[i]], validate)]))

\* Document.to_text taking the sub-sections last to first
Document_to_text_reversed(self, validate) ==
    Let(Section_to_text(self, validate), LAMBDA content :
        IF IsErr(content) THEN content
        ELSE Let(SectionTexts(self, FALSE), LAMBDA sections :
                 Str(content.s \o <<NL>> \o
                     Join([i \in 1..Len(sections) |-> sections[Len(sections) + 1 - i].s]
                          \o <<KonetsDokumenta>>, <<NL>>))))

Document_to_text(self, validate) ==
    Let(Section_to_text(self, validate), LAMBDA content :
        IF IsErr(content) THEN content
        ELSE Let(SectionTexts(self, FALSE), LAMBDA sections :
                 Str(content.s \o <<NL>> \o
                     Join([i \in 1..Len(sections) |-> sections[i].s] \o <<KonetsDokumenta>>,
                          <<NL>>))))

-----------------------------------------------------------------------------
(* class Statement *)

Statement(header, balance, documents) ==
    [t |-> "stmt", header |-> header, balance |-> balance, documents |-> documents]

Statement_from_text(source_text) ==
    Let(<<Header_from_text(source_text), Balance_from_text(source_text),
          Document_from_text(source_text)>>,
        LAMBDA parts :
            IF AnyErr(parts) THEN FirstErr(parts)
            ELSE Statement(parts[1], parts[2], parts[3]))

DateLE(a, b) == <<a.y, a.m, a.d>> = <<b.y, b.m, b.d>>
                \/ a.y < b.y
                \/ (a.y = b.y /\ a.m < b.m)
                \/ (a.y = b.y /\ a.m = b.m /\ a.d < b.d)

\* min(dates), max(dates) of a non-empty list of dates
MinDate(dates) == dates[CHOOSE i \in 1..Len(dates) : \A j \in 1..Len(dates) : DateLE(dates[i], dates[j])]
MaxDate(dates) == dates[CHOOSE i \in 1..Len(dates) : \A j \in 1..Len(dates) : DateLE(dates[j], dates[i])]

\* the Header from_documents builds
HeaderOfDocuments(sender, documents, today, now) ==
    LET dates == [i \in 1..Len(documents) |-> documents[i].f.date]
    IN  Obj("Header", [New("Header").f EXCEPT
            !.format_version = Str(<<"1", ".", "0", "2">>),
            !.encoding = Str(<<"W", "i", "n", "d", "o", "w", "s">>),
            !.sender = sender,
            !.creation_date = today,
            !.creation_time = now,
            !.filter_date_since = MinDate(dates),
            !.filter_date_till = MaxDate(dates),
            !.filter_account_numbers =
                [t |-> "set",
                 items |-> {documents[i].f.payer.f.account_number : i \in 1..Len(documents)}]])

\* from_documents without the single-bank check
from_documents_unchecked(sender, documents, today, now) ==
    IF documents = <<>> THEN Err("ValueError", "from_documents")
    ELSE Statement(HeaderOfDocuments(sender, documents, today, now), None, List(documents))

\* Statement.from_documents(sender, documents); today and now are what
\* date.today() and datetime.now() return
from_documents(sender, documents, today, now) ==
    LET payments_from_the_only_bank ==
            Cardinality({documents[i].f.payer.f.bank_bic : i \in 1..Len(documents)}) = 1
    IN  IF ~payments_from_the_only_bank THEN Err("ValueError", "from_documents")
        ELSE Statement(HeaderOfDocuments(sender, documents, today, now), None, List(documents))

\* Statement.to_text(self, validate)
Statement_to_text(self, validate) ==
    Let(IF Truthy(self.documents) THEN self.documents.items ELSE <<>>, LAMBDA docs :
    Let(<<Section_to_text(self.header, validate),
          IF Truthy(self.balance) THEN Balance_to_text(self.balance, validate) ELSE None>>
        \o AsList([i \in 1..Len(docs) |-> Document_to_text(docs[i], validate)])
        \o <<Str(KonetsFaila)>>,
        LAMBDA results :
            IF AnyErr(results) THEN FirstErr(results)
            ELSE Let(SelectSeq(results, LAMBDA x : Truthy(x)), LAMBDA kept :
                     Str(Join([i \in 1..Len(kept) |-> kept[i].s], <<NL, NL>>)))))

RECURSIVE reduce(_)
\* reduce(lambda x, y: x + y, amounts) of a non-empty list
reduce(amounts) ==
    IF Len(amounts) = 1 THEN amounts[1]
    ELSE DecimalAdd(reduce(SubSeq(amounts, 1, Len(amounts) - 1)), amounts[Len(amounts)])

\* total_amount returning the amount of the first document
total_amount_first(self) ==
    IF Truthy(self.documents) THEN self.documents.items[1].f.amount
    ELSE [t |-> "int", n |-> 0]

\* Statement.total_amount(self): the int 0 when self.documents is empty or None
total_amount(self) ==
    IF Truthy(self.documents)
    THEN reduce([i \in 1..Len(self.documents.items) |-> self.documents.items[i].f.amount])
    ELSE [t |-> "int", n |-> 0]

-----------------------------------------------------------------------------
(* The state: the last operation of the codec that was called (op), what it
   was called on (arg), what it returned or raised (res), and, when arg is
   the result of an earlier call, what that call was given (src). *)

Start == op = "start" /\ arg = None /\ res = None /\ src = None

-----------------------------------------------------------------------------
(* Cast.str_to_amount on amount tokens *)

MaxTokenLen == 4

TokenChars == {"1", "5", ",", ".", "'", " "}

RECURSIVE SeqsUpTo(_, _)
\* the sequences over S of length at most n
SeqsUpTo(S, n) ==
    IF n = 0 THEN {<<>>}
    ELSE LET shorter == SeqsUpTo(S, n - 1)
         IN  shorter \cup {Append(w, c) : w \in {v \in shorter : Len(v) = n - 1}, c \in S}

\* 1'234.567,89   1 234 567,89   1234567.89
TokenApostrophe == <<"1", "'", "2", "3", "4", ".", "5", "6", "7", ",", "8", "9">>
TokenSpaces     == <<"1", " ", "2", "3", "4", " ", "5", "6", "7", ",", "8", "9">>
TokenPlain      == <<"1", "2", "3", "4", "5", "6", "7", ".", "8", "9">>

NamedTokens == {TokenApostrophe, TokenSpaces, TokenPlain}

\* the three tokens, 1.234.567,89 and 1000,50, and every short token
AmountTokens ==
    NamedTokens
    \cup {<<"1", ".", "2", "3", "4", ".", "5", "6", "7", ",", "8", "9">>,
          <<"1", "0", "0", "0", ",", "5", "0">>}
    \cup SeqsUpTo(TokenChars, MaxTokenLen)

StrToAmount ==
    /\ op = "start"
    /\ \E tok \in AmountTokens :
        /\ op'  = "str_to_amount"
        /\ arg' = Str(tok)
        /\ res' = str_to_amount(tok)
        /\ src' = None

InitCast == Start

NextCast == StrToAmount

SpecCast == InitCast /\ [][NextCast]_vars

\* C1: Cast.str_to_amount decodes each of the tokens 1'234.567,89, 1 234 567,89
\* and 1234567.89 to the exact decimal 1234567.89: no error, the point kept.
C1_SameDecimal ==
    (op = "str_to_amount" /\ arg.s \in NamedTokens)
        => res = Decimal(FALSE, 123456789, -2)

-----------------------------------------------------------------------------
(* Field.get_value_from_text and Section.from_text on spans of a few lines *)

MaxLines == 3

\* the value tokens a line of each field type carries: decodable ones, among
\* them an all-blank and an empty text
TokensOf(type) ==
    CASE type = "DATE"   -> {<<"0", "2", ".", "0", "1", ".", "2", "0", "2", "0">>,
                             <<"1", "5", ".", "0", "3", ".", "2", "0", "2", "1">>}
      [] type = "TIME"   -> {<<"1", "4", ":", "3", "6", ":", "0", "1">>}
      [] type = "AMOUNT" -> {<<"1", "0", "0", "0", ".", "0", "0">>, <<"2", ".", "5", "0">>}
      [] OTHER           -> {<<"a">>, <<"b", " ", "c">>, <<" ">>, <<>>}

FirstToken(type) ==
    CASE type = "DATE"   -> <<"0", "2", ".", "0", "1", ".", "2", "0", "2", "0">>
      [] type = "TIME"   -> <<"1", "4", ":", "3", "6", ":", "0", "1">>
      [] type = "AMOUNT" -> <<"1", "0", "0", "0", ".", "0", "0">>
      [] OTHER           -> <<"a">>

\* the lines a span may hold for one field: key=value, the bare key, and a
\* line of a longer key that starts with the field's key
LinesFor(field) ==
    {field.key \o <<"=">> \o v : v \in TokensOf(field.type)}
    \cup {field.key, field.key \o <<"X", "=">> \o FirstToken(field.type)}

\* the fields get_value_from_text is exercised on: those of Header and Balance
ProbedFields ==
    {HeaderSchema[i] : i \in 1..Len(HeaderSchema)}
    \cup {BalanceSchema[i] : i \in 1..Len(BalanceSchema)}

\* the lines a span of class cls may hold: one key=value line per field
SectionLines(cls) ==
    {SchemaOf(cls)[i].key \o <<"=">> \o FirstToken(SchemaOf(cls)[i].type) :
        i \in 1..Len(SchemaOf(cls))}

ParsedClasses == {"Header", "Balance", "Document"}

GetValueFromText ==
    /\ op = "start"
    /\ \E field \in ProbedFields :
       \E ls \in SeqsUpTo(LinesFor(field), MaxLines) :
        /\ op'  = "get_value_from_text"
        /\ arg' = [field |-> field, text |-> Str(Join(ls, <<NL>>))]
        /\ res' = get_value_from_text(field, Str(Join(ls, <<NL>>)))
        /\ src' = None

SectionFromText ==
    /\ op = "start"
    /\ \E cls \in ParsedClasses :
       \E ls \in SeqsUpTo(SectionLines(cls), MaxLines) :
        /\ op'  = "Section.from_text"
        /\ arg' = [cls |-> cls, text |-> Str(Join(ls, <<NL>>))]
        /\ res' = Section_from_text(cls, Str(Join(ls, <<NL>>)))
        /\ src' = None

\* Document.from_text on a text of a few lines of a document and of its
\* receipt, closed by the end marker
DocumentFromSpan ==
    /\ op = "start"
    /\ \E ls \in SeqsUpTo(SectionLines("Document") \cup SectionLines("Receipt"), MaxLines) :
        /\ op'  = "Document.from_text"
        /\ arg' = [cls |-> "Document", text |-> Str(Join(ls \o <<KonetsDokumenta>>, <<NL>>))]
        /\ res' = Document_from_text(Str(Join(ls \o <<KonetsDokumenta>>, <<NL>>)))
        /\ src' = None

\* Document.from_text on a span that holds a few lines of keys of which one
\* is the beginning of another, each line with a value of its own
DocumentFromKeyLines ==
    /\ op = "start"
    /\ \E ls \in SeqsUpTo({ <<"Platelshchik", "=", "p">>,
                           <<"Platelshchik", "1", "=", "q">>,
                           <<"Platelshchik", "INN", "=", "r">>,
                           <<"Poluchatel", "=", "u">>,
                           <<"Poluchatel", "Schet", "=", "v">>,
                           <<"Nomer", "=", "n">>,
                           <<"Nomer", "Scheta", "Postavshchika", "=", "m">>,
                           <<"Data", "=", "0", "2", ".", "0", "1", ".", "2", "0", "2", "0">>,
                           <<"Data", "Spisano", "=",
                             "1", "5", ".", "0", "3", ".", "2", "0", "2", "1">> },
                         MaxLines) :
        /\ op'  = "Document.from_text"
        /\ arg' = [cls |-> "Document",
                   text |-> Str(Join(<<SektsiyaDokument \o <<"=", "a">>>> \o ls
                                     \o <<KonetsDokumenta>>, <<NL>>))]
        /\ res' = Document_from_text(Str(Join(<<SektsiyaDokument \o <<"=", "a">>>> \o ls
                                              \o <<KonetsDokumenta>>, <<NL>>)))
        /\ src' = None

InitField == Start

NextField == GetValueFromText \/ SectionFromText \/ DocumentFromSpan \/ DocumentFromKeyLines

SpecField == InitField /\ [][NextField]_vars

\* the values of the key=value lines of a field in a text, in source order
ValuesIn(field, text) ==
    LET lines == Split(text, NL)
        at    == {i \in 1..Len(lines) : StartsWith(lines[i], field.key \o <<"=">>)}
        nth   == [k \in 1..Cardinality(at) |->
                    CHOOSE i \in at : Cardinality({j \in at : j <= i}) = k]
    IN  [k \in 1..Cardinality(at) |->
            SubSeq(lines[nth[k]], Len(field.key) + 2, Len(lines[nth[k]]))]

\* C7: for an ARRAY field get_value_from_text returns, for every number n >= 1
\* of key=value lines, a list of exactly n decoded elements in source order.
C7_ListOfN ==
    (op = "get_value_from_text" /\ arg.field.type = "ARRAY"
        /\ Len(ValuesIn(arg.field, arg.text.s)) >= 1)
    => /\ res.t = "list"
       /\ Len(res.items) = Len(ValuesIn(arg.field, arg.text.s))
       /\ \A k \in 1..Len(res.items) :
            res.items[k] = str_to_text(ValuesIn(arg.field, arg.text.s)[k])

MultiplicityError == Err("ValueError", "multiplicity")

\* C8: two or more key=value lines for a field that is not ARRAY make
\* get_value_from_text, and Section.from_text on that span, raise the
\* multiplicity error; no value is returned.  It holds for every other type.
C8_Multiplicity ==
    /\ (op = "get_value_from_text" /\ arg.field.type # "ARRAY"
            /\ Len(ValuesIn(arg.field, arg.text.s)) >= 2)
        => res = MultiplicityError
    /\ (op = "Section.from_text"
            /\ \E i \in 1..Len(SchemaOf(arg.cls)) :
                /\ SchemaOf(arg.cls)[i].type # "ARRAY"
                /\ Len(ValuesIn(SchemaOf(arg.cls)[i], arg.text.s)) >= 2)
        => res = MultiplicityError

\* a Balance span with two initial-balance lines was parsed
C8_Witness ==
    /\ op = "Section.from_text"
    /\ arg.cls = "Balance"
    /\ Len(ValuesIn(BalanceSchema[5], arg.text.s)) = 2
    /\ res = MultiplicityError

-----------------------------------------------------------------------------
(* Section.to_text on Payer, Header and Balance objects *)

A == Str(<<"a">>)
B == Str(<<"b">>)

Day1 == Date(2020, 1, 2)
Day2 == Date(2021, 3, 15)
Day3 == Date(2021, 12, 31)

Clock == Time(14, 36, 1)

Opt(v) == {None, v}

\* every Payer whose attributes are each absent or populated
PayerObjects ==
    {Obj("Payer", [a \in Attrs("Payer") |-> IF a = "date_charged" THEN d ELSE f[a]]) :
        f \in [Attrs("Payer") \ {"date_charged"} -> Opt(A)], d \in Opt(Day1)}

\* the values of an ARRAY attribute: absent, empty, lists, and the bare str the
\* parser leaves for a single line
ArrayValues ==
    {None, List(<<>>), List(<<A>>), List(<<A, B>>), List(<<B, None, A>>),
     Str(<<"4", "0">>)}

HeaderObjects ==
    {Obj("Header",
         [format_name |-> v1, format_version |-> v2, encoding |-> v2, sender |-> v3,
          receiver |-> v4, creation_date |-> v5, creation_time |-> v6,
          filter_date_since |-> v7, filter_date_till |-> v7,
          filter_account_numbers |-> v8, filter_document_types |-> v9]) :
        v1 \in Opt(A), v2 \in Opt(A), v3 \in Opt(B), v4 \in Opt(A), v5 \in Opt(Day1),
        v6 \in Opt(Clock), v7 \in Opt(Day2), v8 \in ArrayValues, v9 \in ArrayValues}

Amount1 == Decimal(FALSE, 100000, -2)
Amount2 == Decimal(FALSE, 250, -2)

BalanceObjects ==
    {Obj("Balance",
         [tag_begin |-> v1, date_since |-> v2, date_till |-> v3, account_number |-> v4,
          initial_balance |-> v5, total_income |-> v6, total_expense |-> v7,
          final_balance |-> v8, tag_end |-> v1]) :
        v1 \in Opt(A), v2 \in Opt(Day1), v3 \in Opt(Day2), v4 \in Opt(A),
        v5 \in Opt(Amount1), v6 \in Opt(Amount2), v7 \in Opt(Amount2), v8 \in Opt(Amount1)}

SectionToText ==
    /\ op = "start"
    /\ \E self \in PayerObjects \cup HeaderObjects \cup BalanceObjects :
       \E validate \in BOOLEAN :
        /\ op'  = "Section.to_text"
        /\ arg' = [self |-> self, validate |-> validate]
        /\ res' = Section_to_text(self, validate)
        /\ src' = None

InitSection == Start

NextSection == SectionToText

SpecSection == InitSection /\ [][NextSection]_vars

\* the line of a text is a line of the field: key=..., or the bare key of a flag
IsLineOf(field, line) ==
    IF field.type = "FLAG" THEN line = field.key
    ELSE StartsWith(line, field.key \o <<"=">>)

\* the lines of the field in a text, in order of appearance
LinesOf(field, text) == SelectSeq(Split(text, NL), LAMBDA l : IsLineOf(field, l))

ValidationError(v) == v.t = "err" /\ v.kind = "ValueError" /\ v.at = "validate_attr"

PayerAccountNumber == PayerSchema[9]

\* C2 as stated: a Payer with account_number absent fails to serialize with
\* validate, and without validate serializes to a text with no
\* PlatelshchikRaschSchet line.
C2_LineOmitted ==
    (op = "Section.to_text" /\ arg.self.cls = "Payer"
        /\ arg.self.f.account_number = None)
    => IF arg.validate THEN ValidationError(res)
       ELSE res.t = "str" /\ LinesOf(PayerAccountNumber, res.s) = <<>>

\* C2, amended: a Payer with account_number absent fails to serialize with
\* validate; without validate it serializes, the absent account_number is
\* rendered as the line PlatelshchikRaschSchet= with an empty value (as every
\* empty field required to the bank is), and only the empty fields that are
\* not required to the bank have no line.
C2_EmptyRequiredKept ==
    (op = "Section.to_text" /\ arg.self.cls = "Payer"
        /\ arg.self.f.account_number = None)
    => IF arg.validate THEN ValidationError(res)
       ELSE /\ res.t = "str"
            /\ LinesOf(PayerAccountNumber, res.s) = <<PayerAccountNumber.key \o <<"=">> >>
            /\ \A i \in 1..Len(PayerSchema) :
                 arg.self.f[PayerSchema[i].attr] = None =>
                    LinesOf(PayerSchema[i], res.s) =
                        IF "TO_BANK" \in PayerSchema[i].required
                        THEN <<PayerSchema[i].key \o <<"=">> >>
                        ELSE <<>>

\* a Payer with only account_number and an optional line absent was
\* serialized without validation
C2_Witness ==
    /\ op = "Section.to_text"
    /\ arg.self.cls = "Payer"
    /\ ~arg.validate
    /\ \A a \in Attrs("Payer") :
         (arg.self.f[a] = None) <=> (a \in {"account_number", "l2_account_number"})
    /\ res.t = "str"

\* the position in the schema of the field a line belongs to (0: none)
FieldIndex(sch, line) ==
    IF \E i \in 1..Len(sch) : IsLineOf(sch[i], line)
    THEN CHOOSE i \in 1..Len(sch) : IsLineOf(sch[i], line)
    ELSE 0

\* the values the elements of a list render to, for the elements that render
RenderedItems(field, items) ==
    LET texts == [k \in 1..Len(items) |->
                    IF items[k].t = "none" THEN <<>> ELSE Strip(items[k].s)]
    IN  IF "TO_BANK" \in field.required THEN texts
        ELSE SelectSeq(texts, LAMBDA x : x # <<>>)

\* C10: in the text Section.to_text returns, the lines follow the declaration
\* order of the schema: every line belongs to a field, a line of a field
\* declared earlier never follows a line of a field declared later, and the
\* lines of a field holding a non-empty list are its elements in element order.
C10_DeclarationOrder ==
    (op = "Section.to_text" /\ res.t = "str")
    => LET sch   == SchemaOf(arg.self.cls)
           lines == SelectSeq(Split(res.s, NL), LAMBDA l : l # <<>>)
       IN  /\ \A p \in 1..Len(lines) : FieldIndex(sch, lines[p]) # 0
           /\ \A p, q \in 1..Len(lines) :
                p < q => FieldIndex(sch, lines[p]) <= FieldIndex(sch, lines[q])
           /\ \A i \in 1..Len(sch) :
                (sch[i].type = "ARRAY" /\ arg.self.f[sch[i].attr].t = "list"
                    /\ arg.self.f[sch[i].attr].items # <<>>)
                => LinesOf(sch[i], res.s) =
                     [k \in 1..Len(RenderedItems(sch[i], arg.self.f[sch[i].attr].items)) |->
                        sch[i].key \o <<"=">>
                          \o RenderedItems(sch[i], arg.self.f[sch[i].attr].items)[k]]

\* a Header was serialized whose text holds lines of four fields, among them a
\* three-element list
C10_Witness ==
    /\ op = "Section.to_text"
    /\ arg.self.cls = "Header"
    /\ res.t = "str"
    /\ arg.self.f.filter_account_numbers = List(<<B, None, A>>)
    /\ arg.self.f.filter_document_types = List(<<A, B>>)
    /\ arg.self.f.format_name # None
    /\ arg.self.f.creation_date # None
    /\ Len(LinesOf(HeaderSchema[10], res.s)) = 3

-----------------------------------------------------------------------------
(* Fully populated objects: every attribute of every class holds a value of
   its own, so that a value that lands in another field is seen. *)

ClassLetter(cls) ==
    CASE cls = "Header"   -> "h"
      [] cls = "Balance"  -> "b"
      [] cls = "Receipt"  -> "q"
      [] cls = "Payer"    -> "p"
      [] cls = "Receiver" -> "r"
      [] cls = "Payment"  -> "m"
      [] cls = "Tax"      -> "t"
      [] cls = "Special"  -> "s"
      [] cls = "Document" -> "d"

\* the value the i-th field of cls holds in the populated object
BaseValue(cls, i) ==
    LET type == SchemaOf(cls)[i].type
    IN  CASE type = "DATE"   -> Date(2020, 1, i)
          [] type = "TIME"   -> Time(14, 36, i)
          [] type = "AMOUNT" -> Decimal(FALSE, 100000 + i, -2)
          [] type = "ARRAY"  -> List(<<Str(<<ClassLetter(cls)>> \o StrOfInt(i) \o <<"x">>),
                                       Str(<<ClassLetter(cls)>> \o StrOfInt(i) \o <<"y">>)>>)
          [] OTHER           -> Str(<<ClassLetter(cls)>> \o StrOfInt(i))

IndexOfAttr(cls, a) == CHOOSE i \in 1..Len(SchemaOf(cls)) : SchemaOf(cls)[i].attr = a

IsSchemaAttr(cls, a) == \E i \in 1..Len(SchemaOf(cls)) : SchemaOf(cls)[i].attr = a

\* cls(...) with every schema attribute given; a Document with its six
\* sub-sections populated too
Base(cls) ==
    Obj(cls, [a \in Attrs(cls) |->
                IF IsSchemaAttr(cls, a) THEN BaseValue(cls, IndexOfAttr(cls, a))
                ELSE LET sub == SubsectionClass(a)
                     IN  Obj(sub, [b \in Attrs(sub) |-> BaseValue(sub, IndexOfAttr(sub, b))])])

\* a slot of a Document: <<"", attr>> is a flat attribute, <<sub, attr>> an
\* attribute of the sub-section sub, <<sub, "">> the sub-section itself
FlatSlots == {<<"", DocumentSchema[i].attr>> : i \in 1..Len(DocumentSchema)}

SubSlots(sub) ==
    {<<sub, SchemaOf(SubsectionClass(sub))[i].attr>> :
        i \in 1..Len(SchemaOf(SubsectionClass(sub)))}

Slots == FlatSlots \cup UNION {SubSlots(Subsections[i]) \cup {<<Subsections[i], "">>} : i \in 1..6}

\* the document d with the slots of S set to None
Clear(d, S) ==
    Obj("Document",
        [a \in Attrs("Document") |->
            IF <<"", a>> \in S \/ <<a, "">> \in S THEN None
            ELSE IF IsSchemaAttr("Document", a) \/ d.f[a].t = "none" THEN d.f[a]
            ELSE Obj(d.f[a].cls,
                     [b \in Attrs(d.f[a].cls) |->
                        IF <<a, b>> \in S THEN None ELSE d.f[a].f[b]])])

RECURSIVE SubsetsUpTo(_, _)
\* the subsets of S with at most n elements
SubsetsUpTo(S, n) ==
    IF n = 0 THEN {{}}
    ELSE LET smaller == SubsetsUpTo(S, n - 1)
         IN  smaller \cup {T \cup {x} : T \in smaller, x \in S}

\* the field is required towards the bank and holds nothing
RequiredEmpty(field, v) ==
    "TO_BANK" \in field.required /\ field.type # "FLAG" /\ ~Truthy(v)

\* some field of a Section object is required towards the bank and empty
SectionLacks(obj) ==
    \E i \in 1..Len(SchemaOf(obj.cls)) :
        RequiredEmpty(SchemaOf(obj.cls)[i], obj.f[SchemaOf(obj.cls)[i].attr])

\* some field of the sub-sections of a Document is required towards the bank
\* and empty
SubsectionLacks(d) ==
    \E i \in 1..6 : d.f[Subsections[i]].t = "obj" /\ SectionLacks(d.f[Subsections[i]])

-----------------------------------------------------------------------------
(* Balance.from_text on a text with Balance blocks, then Balance.to_text of
   the object it returns *)

\* the interior lines of a block: for each field of the set, its key=value line
BlockLines(present) ==
    LET sch == SelectSeq(BalanceSchema, LAMBDA fld : fld.attr \in present)
    IN  [i \in 1..Len(sch) |-> sch[i].key \o <<"=">> \o FirstToken(sch[i].type)]

Block(present) ==
    Join(<<SektsiyaRaschSchet>> \o BlockLines(present) \o <<KonetsRaschSchet>>, <<NL>>)

HeaderLines == <<"1CClientBankExchange", NL, "Versiya", "Formata", "=", "1", ".", "0", "2">>

BalanceAttrs == {BalanceSchema[i].attr : i \in 2..8}

\* a header, the blocks, the end of file
BalanceTexts ==
    {Join(<<HeaderLines, Block(present), KonetsFaila>>, <<NL>>) : present \in SUBSET BalanceAttrs}
    \cup {Join(<<HeaderLines, KonetsFaila>>, <<NL>>),
          Join(<<HeaderLines, Block({"initial_balance"}), Block({"account_number"}), KonetsFaila>>,
               <<NL>>)}

BalanceFromText ==
    /\ op = "start"
    /\ \E text \in BalanceTexts :
        /\ op'  = "Balance.from_text"
        /\ arg' = Str(text)
        /\ res' = Balance_from_text(Str(text))
        /\ src' = None

BalanceToText ==
    /\ op = "Balance.from_text"
    /\ res.t = "obj"
    /\ \E validate \in BOOLEAN :
        /\ op'  = "Balance.to_text"
        /\ arg' = [self |-> res, validate |-> validate]
        /\ res' = Balance_to_text(res, validate)
        /\ src' = arg

InitBalance == Start

NextBalance == BalanceFromText \/ BalanceToText

SpecBalance == InitBalance /\ [][NextBalance]_vars

\* the text holds one initial-balance line, 1000.00, and no total-income line
MinimalBalanceText(text) ==
    /\ Len(RegexFindAll("Balance", text.s)) = 1
    /\ ValuesIn(BalanceSchema[5], text.s) = <<FirstToken("AMOUNT")>>
    /\ ValuesIn(BalanceSchema[6], text.s) = <<>>

\* C3: a text with one Balance block holding NachalnyiOstatok=1000.00 and no
\* VsegoPostupilo line parses to a Balance with initial_balance 1000.00 and
\* total_income absent, and to_text(validate=False) of that object has no
\* line of VsegoPostupilo nor of any other absent amount field.
C3_AbsentAmountOmitted ==
    /\ (op = "Balance.from_text" /\ MinimalBalanceText(arg))
        => /\ res.t = "obj"
           /\ res.f.initial_balance = Decimal(FALSE, 100000, -2)
           /\ res.f.total_income = None
    /\ (op = "Balance.to_text" /\ ~arg.validate /\ MinimalBalanceText(src))
        => /\ res.t = "str"
           /\ \A i \in 1..Len(BalanceSchema) :
                (BalanceSchema[i].type = "AMOUNT" /\ arg.self.f[BalanceSchema[i].attr] = None)
                    => LinesOf(BalanceSchema[i], res.s) = <<>>

-----------------------------------------------------------------------------
(* Document.to_text on documents built field by field, then Document.from_text
   of the text it returns *)

MaxCleared == 1

\* the populated Document with at most MaxCleared of its slots absent
DocumentObjects == {Clear(Base("Document"), S) : S \in SubsetsUpTo(Slots, MaxCleared)}

DocumentToText ==
    /\ op = "start"
    /\ \E self \in DocumentObjects :
       \E validate \in BOOLEAN :
        /\ op'  = "Document.to_text"
        /\ arg' = [self |-> self, validate |-> validate]
        /\ res' = Document_to_text(self, validate)
        /\ src' = None

DocumentFromText ==
    /\ op = "Document.to_text"
    /\ res.t = "str"
    /\ op'  = "Document.from_text"
    /\ arg' = res
    /\ res' = Document_from_text(res)
    /\ src' = arg

InitDocument == Start

NextDocument == DocumentToText \/ DocumentFromText

SpecDocument == InitDocument /\ [][NextDocument]_vars

\* every field required towards the bank is populated, in the document and in
\* its sub-sections, and the sub-sections that have such fields exist
OutboundComplete(d) ==
    /\ ~SectionLacks(d)
    /\ ~SubsectionLacks(d)
    /\ \A i \in 1..6 :
         (\E k \in 1..Len(SchemaOf(SubsectionClass(Subsections[i]))) :
            "TO_BANK" \in SchemaOf(SubsectionClass(Subsections[i]))[k].required)
         => d.f[Subsections[i]].t = "obj"

\* C4: for every Document d whose outbound-required fields are all populated,
\* every other field populated or absent, Document.from_text of
\* d.to_text(validate=True) succeeds and yields exactly one Document equal to
\* d field for field, the six sub-sections included.
C4_RoundTrip ==
    (op = "Document.from_text" /\ src.validate /\ OutboundComplete(src.self))
        => res = List(<<src.self>>)

-----------------------------------------------------------------------------
(* Statement.to_text of statements whose parts are populated or lack one
   required field, Statement.from_text of the text it returns, and
   Statement.from_documents of lists of documents *)

MaxDocs == 2

\* headers: populated, the sender (required towards the bank) absent, the
\* receiver (required from the bank only) absent, exactly one filter account
StatementHeaders ==
    { Base("Header"),
      Obj("Header", [Base("Header").f EXCEPT !.sender = None]),
      Obj("Header", [Base("Header").f EXCEPT !.receiver = None]),
      Obj("Header", [Base("Header").f EXCEPT
                        !.filter_account_numbers = List(<<Str(<<"4", "0">>)>>)]) }

\* balances: none, populated, populated except for the two tag attributes
StatementBalances ==
    { None,
      Base("Balance"),
      Obj("Balance", [Base("Balance").f EXCEPT !.tag_begin = None, !.tag_end = None]) }

\* documents: populated, the payer's bank_bic absent, the number absent, the
\* receipt a Receipt() with every attribute absent, the amount absent
StatementDocuments ==
    { Base("Document"),
      Clear(Base("Document"), {<<"payer", "bank_bic">>}),
      Clear(Base("Document"), {<<"", "number">>}),
      Clear(Base("Document"), SubSlots("receipt")),
      Clear(Base("Document"), {<<"", "amount">>}) }

StatementObjects ==
    {Statement(h, b, d) :
        h \in StatementHeaders, b \in StatementBalances,
        d \in {None} \cup {List(ds) : ds \in SeqsUpTo(StatementDocuments, MaxDocs)}}

\* a populated document of the given payer bank, date and payer account
DocumentOf(bic, day, account) ==
    Obj("Document",
        [Base("Document").f EXCEPT
            !.date = day,
            !.payer = Obj("Payer", [Base("Document").f.payer.f EXCEPT
                                        !.bank_bic = bic, !.account_number = account])])

PaymentDocuments ==
    {DocumentOf(bic, day, account) : bic \in {A, B}, day \in {Day1, Day2, Day3}, account \in {A, B}}

Today == Day3

Now == [t |-> "datetime", date |-> Day3, time |-> Clock]

StatementToText ==
    /\ op = "start"
    /\ \E self \in StatementObjects :
       \E validate \in BOOLEAN :
        /\ op'  = "Statement.to_text"
        /\ arg' = [self |-> self, validate |-> validate]
        /\ res' = Statement_to_text(self, validate)
        /\ src' = None

StatementFromText ==
    /\ op = "Statement.to_text"
    /\ res.t = "str"
    /\ op'  = "Statement.from_text"
    /\ arg' = res
    /\ res' = Statement_from_text(res)
    /\ src' = arg

\* to_text(validate=False) of the Statement that Statement.from_text returned;
\* src is the text that was parsed
StatementToTextAgain ==
    /\ op = "Statement.from_text"
    /\ res.t = "stmt"
    /\ op'  = "Statement.from_text.to_text"
    /\ arg' = [self |-> res, validate |-> FALSE]
    /\ res' = Statement_to_text(res, FALSE)
    /\ src' = arg

FromDocuments ==
    /\ op = "start"
    /\ \E documents \in SeqsUpTo(PaymentDocuments, MaxDocs) :
        /\ op'  = "Statement.from_documents"
        /\ arg' = [sender |-> A, documents |-> documents]
        /\ res' = from_documents(A, documents, Today, Now)
        /\ src' = None

\* total_amount on statements whose documents carry an amount of either sign
\* and of different exponents, or none; src is the statement after the call,
\* which assigns nothing
TotalAmount ==
    /\ op = "start"
    /\ \E amounts \in SeqsUpTo({Amount1, Amount2, Decimal(FALSE, 5, -1),
                                Decimal(TRUE, 250, -2), None}, MaxDocs) :
       \E documents \in {None, List([i \in 1..Len(amounts) |->
                            Obj("Document", [New("Document").f EXCEPT !.amount = amounts[i]])])} :
        /\ op'  = "Statement.total_amount"
        /\ arg' = [self |-> Statement(Base("Header"), None, documents)]
        /\ res' = total_amount(Statement(Base("Header"), None, documents))
        /\ src' = Statement(Base("Header"), None, documents)

InitStatement == Start

NextStatement ==
    \/ StatementToText
    \/ StatementFromText
    \/ StatementToTextAgain
    \/ FromDocuments
    \/ TotalAmount

SpecStatement == InitStatement /\ [][NextStatement]_vars

\* some non-flag field required towards the bank is empty somewhere in the
\* statement: header, balance, a document or a sub-section of a document
StatementLacks(st) ==
    \/ SectionLacks(st.header)
    \/ (st.balance.t = "obj" /\ SectionLacks(st.balance))
    \/ (st.documents.t = "list" /\
        \E i \in 1..Len(st.documents.items) :
            SectionLacks(st.documents.items[i]) \/ SubsectionLacks(st.documents.items[i]))

\* C5 as stated: Statement.to_text(validate=True) raises the validation error
\* whenever a non-flag field required towards the bank is empty anywhere in
\* the statement, the sub-sections of its documents included.
C5_ValidateAll ==
    (op = "Statement.to_text" /\ arg.validate /\ StatementLacks(arg.self))
        => ValidationError(res)

\* the text holds the opening tag of a Balance block
HasBalanceTag(text) ==
    \E i \in 1..(Len(text) - 2) : SubSeq(text, i, i + 2) = SektsiyaRaschSchet

\* C6 as stated: Statement.from_text of a text with no Balance block, whose
\* header and documents parse, returns a Statement with balance absent and the
\* header and the documents parsed as Header.from_text and Document.from_text
\* parse them.
C6_NoBalance ==
    (op = "Statement.from_text" /\ ~HasBalanceTag(arg.s)
        /\ ~IsErr(Header_from_text(arg)) /\ ~IsErr(Document_from_text(arg)))
        => /\ res.t = "stmt"
           /\ res.balance = None
           /\ res.header = Header_from_text(arg)
           /\ res.documents = Document_from_text(arg)

\* the payer BICs of a list of documents
PayerBics(documents) == {documents[i].f.payer.f.bank_bic : i \in 1..Len(documents)}

\* C9: Statement.from_documents raises ValueError when the documents carry two
\* differing payer BICs; given one or more documents of one payer BIC it
\* returns a Statement with balance absent, the documents as given and in the
\* given order, filter_date_since the least and filter_date_till the greatest
\* of the document dates, and filter_account_numbers the set of the payers'
\* account numbers.
C9_FromDocuments ==
    op = "Statement.from_documents" =>
        LET documents == arg.documents
            n         == Len(documents)
        IN  /\ Cardinality(PayerBics(documents)) >= 2
                => (res.t = "err" /\ res.kind = "ValueError")
            /\ (n >= 1 /\ Cardinality(PayerBics(documents)) = 1)
                => /\ res.t = "stmt"
                   /\ res.balance = None
                   /\ res.documents = List(documents)
                   /\ \E i \in 1..n : res.header.f.filter_date_since = documents[i].f.date
                   /\ \A i \in 1..n : DateLE(res.header.f.filter_date_since, documents[i].f.date)
                   /\ \E i \in 1..n : res.header.f.filter_date_till = documents[i].f.date
                   /\ \A i \in 1..n : DateLE(documents[i].f.date, res.header.f.filter_date_till)
                   /\ res.header.f.filter_account_numbers.t = "set"
                   /\ res.header.f.filter_account_numbers.items =
                        {documents[i].f.payer.f.account_number : i \in 1..n}

\* two documents of one bank with different dates, the later first, and
\* different accounts were given and a Statement came back
C9_Witness ==
    /\ op = "Statement.from_documents"
    /\ Len(arg.documents) = 2
    /\ arg.documents[1].f.date = Day2
    /\ arg.documents[2].f.date = Day1
    /\ arg.documents[1].f.payer.f.account_number # arg.documents[2].f.payer.f.account_number
    /\ res.t = "stmt"
    /\ res.header.f.filter_date_since = Day1
    /\ res.header.f.filter_date_till = Day2

\* the top-level blocks Statement.to_text joins: the header, the balance when
\* there is one, each document, and the end-of-file marker
BlockCount(st) ==
    2 + (IF st.balance.t = "obj" THEN 1 ELSE 0)
      + (IF st.documents.t = "list" THEN Len(st.documents.items) ELSE 0)

\* C11 as stated: in the text Statement.to_text returns, an empty line stands
\* only as the single separator between two top-level blocks: there is one
\* empty line per pair of neighbouring blocks, never two in a row, none first
\* or last, whatever sub-sections of a document are present, absent or empty.
C11_BlankLines ==
    (op = "Statement.to_text" /\ res.t = "str")
        => LET lines  == Split(res.s, NL)
               blanks == {i \in 1..Len(lines) : lines[i] = <<>>}
           IN  /\ Cardinality(blanks) = BlockCount(arg.self) - 1
               /\ \A i \in blanks : i > 1 /\ i < Len(lines) /\ (i + 1) \notin blanks

\* C12: the text Document.to_text returns is the rendering of the flat fields,
\* then the rendering of each sub-section that is not absent, in the order
\* Receipt, Payer, Receiver, Payment, Tax, Special, then the line
\* KonetsDokumenta as the last line, each on lines of its own; an absent
\* sub-section gives no line and no sub-section adds a marker line.
C12_DocumentLayout ==
    (op = "Document.to_text" /\ res.t = "str")
        => LET d       == arg.self
               present == SelectSeq(Subsections, LAMBDA a : d.f[a] # None)
               parts   == <<Section_to_text(d, FALSE).s>>
                          \o [i \in 1..Len(present) |-> Section_to_text(d.f[present[i]], FALSE).s]
                          \o <<KonetsDokumenta>>
           IN  /\ res.s = Join(parts, <<NL>>)
               /\ Let(Split(res.s, NL), LAMBDA lines :
                    /\ lines[Len(lines)] = KonetsDokumenta
                    /\ \A i \in 1..(Len(lines) - 1) :
                         lines[i] \notin {KonetsDokumenta, SektsiyaRaschSchet,
                                          KonetsRaschSchet, KonetsFaila})

\* a Document with the tax sub-section absent and the others present was
\* serialized
C12_Witness ==
    /\ op = "Document.to_text"
    /\ res.t = "str"
    /\ arg.self.f.tax = None
    /\ arg.self.f.receipt # None
    /\ arg.self.f.special # None

\* C13 as stated: a FLAG field is looked up as the bare key on a line of its
\* own: parsing the format_name of a Header gives a value when the text holds
\* the line 1CClientBankExchange and absent when it holds no such line.
C13_FlagBareKey ==
    (op = "get_value_from_text" /\ arg.field = HeaderSchema[1])
        => (res # None <=>
                \E i \in 1..Len(Split(arg.text.s, NL)) :
                    Split(arg.text.s, NL)[i] = arg.field.key)

\* the number of thousandths a Decimal stands for
Thousandths(d) == (IF d.neg THEN -1 ELSE 1) * d.coef * Pow10(d.exp + 3)

RECURSIVE SumThousandths(_)
SumThousandths(documents) ==
    IF documents = <<>> THEN 0
    ELSE Thousandths(Head(documents).f.amount) + SumThousandths(Tail(documents))

\* C14: Statement.total_amount returns a Decimal that is exactly the sum of
\* the amounts of the documents (each document carrying an amount), returns
\* zero when the list of documents is empty or absent, and leaves the
\* statement as it was.
C14_TotalAmount ==
    op = "Statement.total_amount" =>
        /\ src = arg.self
        /\ (arg.self.documents = None \/ arg.self.documents = List(<<>>))
            => (res.t = "int" /\ res.n = 0)
        /\ (arg.self.documents.t = "list" /\ arg.self.documents.items # <<>>
                /\ \A i \in 1..Len(arg.self.documents.items) :
                      arg.self.documents.items[i].f.amount.t = "dec")
            => (res.t = "dec"
                /\ Thousandths(res) = SumThousandths(arg.self.documents.items))

\* two documents, one of 1000.00 and one of -2.50, were totalled
C14_Witness ==
    /\ op = "Statement.total_amount"
    /\ arg.self.documents.t = "list"
    /\ Len(arg.self.documents.items) = 2
    /\ arg.self.documents.items[1].f.amount = Amount1
    /\ arg.self.documents.items[2].f.amount = Decimal(TRUE, 250, -2)
    /\ res = Decimal(FALSE, 99750, -2)

\* s with every period but the last one removed
LastPeriodOnly(s) ==
    LET kept == Ascending({i \in 1..Len(s) :
                    s[i] # "." \/ \A j \in (i + 1)..Len(s) : s[j] # "."})
    IN  [k \in 1..Len(kept) |-> s[kept[k]]]

\* C15 as stated: for a token of digits, commas and periods, with apostrophes
\* or spaces as grouping, str_to_amount turns the commas into periods and
\* removes every period but the last, so that the digits after the last
\* separator of the token are the fraction: 1.234.567,89 gives 1234567.89 and
\* 1000,50 gives 1000.50.
C15_LastSeparator ==
    (op = "str_to_amount" /\ \E i \in 1..Len(arg.s) : IsDigit(arg.s[i]))
        => res = DecimalOfStr(LastPeriodOnly(
                    Replace(Keep(arg.s, AmountChars \ {"-"}), ",", <<".">>, -1)))

\* C16 as stated: to_text with validate raises the validation error if and
\* only if some field of the schema is required towards the bank, is not a
\* FLAG and holds no value, whatever its type: a Document with its amount
\* absent fails, as one with its number or date absent does.
C16_ValidateIff ==
    (op = "Document.to_text" /\ arg.validate)
        => (ValidationError(res) <=> SectionLacks(arg.self))

\* C17 as stated: Statement.from_documents raises the single-bank error
\* exactly when the documents carry more than one distinct payer BIC; with at
\* most one BIC, the empty list included, that error is not raised.
C17_SingleBankOnly ==
    op = "Statement.from_documents" =>
        (res = Err("ValueError", "from_documents")
            <=> Cardinality(PayerBics(arg.documents)) > 1)

\* the header of st holds exactly one filter account number
HasOneAccount(st) ==
    /\ st.header.f.filter_account_numbers.t = "list"
    /\ Len(st.header.f.filter_account_numbers.items) = 1

\* the balance of st or one of its documents has an absent amount
LacksAmount(st) ==
    \/ (st.balance.t = "obj" /\
        \E a \in {"initial_balance", "total_income", "total_expense", "final_balance"} :
            st.balance.f[a] = None)
    \/ (st.documents.t = "list" /\
        \E i \in 1..Len(st.documents.items) : st.documents.items[i].f.amount = None)

\* the Document that the text of d alone parses to
ParsedAlone(d) == Document_from_text(Document_to_text(d, FALSE)).items[1]

\* C18: the documents parsed from a text with one or more document spans
\* (here the text of a statement with a balance, every amount written as a
\* number) are one per span, in the order of the spans, and each is what its
\* own span alone parses to: the lines of another span set none of its fields
\* and raise no multiplicity error.
C18_SpanIsolation ==
    (op = "Statement.from_text" /\ src.self.balance.t = "obj"
        /\ src.self.documents.t = "list" /\ src.self.documents.items # <<>>
        /\ ~LacksAmount(src.self))
        => /\ res.t = "stmt"
           /\ res.documents.t = "list"
           /\ Len(res.documents.items) = Len(src.self.documents.items)
           /\ \A i \in 1..Len(res.documents.items) :
                res.documents.items[i] = ParsedAlone(src.self.documents.items[i])

\* a text with two spans was parsed, the first with an empty number and a
\* receipt, the second with a number and no receipt line
C18_Witness ==
    /\ op = "Statement.from_text"
    /\ res.t = "stmt"
    /\ Len(res.documents.items) = 2
    /\ res.documents.items[1].f.number = None
    /\ res.documents.items[1].f.receipt.f.content # None
    /\ res.documents.items[2].f.number # None
    /\ res.documents.items[2].f.receipt.f.content = None

\* every character of s is white space (s may be empty)
IsBlank(s) == \A i \in 1..Len(s) : IsSpace(s[i])

\* every schema attribute of a parsed object is set, and is absent when its
\* key has no line in the text
AllAttributesSet(obj, text) ==
    /\ obj.t = "obj"
    /\ \A i \in 1..Len(SchemaOf(obj.cls)) :
        /\ SchemaOf(obj.cls)[i].attr \in DOMAIN obj.f
        /\ ValuesIn(SchemaOf(obj.cls)[i], text) = <<>>
            => obj.f[SchemaOf(obj.cls)[i].attr] = None

\* C19: after a successful parse every attribute of the schema is set, to the
\* decoded value or to absent; a key with no line gives absent, and so does a
\* TEXT key whose single value is empty or all white space; every parsed
\* Document carries an object for each of its six sub-sections, with every
\* attribute set, also when no key of the sub-section occurs in the span.
C19_AbsentNotDropped ==
    /\ (op = "Section.from_text" /\ ~IsErr(res)) => AllAttributesSet(res, arg.text.s)
    /\ (op = "get_value_from_text" /\ arg.field.type = "TEXT")
        => /\ ValuesIn(arg.field, arg.text.s) = <<>> => res = None
           /\ (Len(ValuesIn(arg.field, arg.text.s)) = 1
                /\ IsBlank(ValuesIn(arg.field, arg.text.s)[1])) => res = None
    /\ (op = "Document.from_text" /\ ~IsErr(res))
        => /\ res.t = "list" /\ res.items # <<>>
           /\ \A k \in 1..Len(res.items) :
                /\ AllAttributesSet(res.items[k], arg.text.s)
                /\ \A i \in 1..6 :
                    /\ res.items[k].f[Subsections[i]].cls = SubsectionClass(Subsections[i])
                    /\ AllAttributesSet(res.items[k].f[Subsections[i]], arg.text.s)

\* a span with no line of the receipt was parsed to a Document
C19_Witness ==
    /\ op = "Document.from_text"
    /\ res.t = "list"
    /\ res.items[1].f.number # None
    /\ res.items[1].f.amount = None
    /\ res.items[1].f.receipt = New("Receipt")

\* C20: for a statement text whose header and balance block both hold
\* DataNachala, DataKontsa and RaschSchet lines and whose documents hold a
\* Poluchatel line, Statement.from_text raises no multiplicity error, the
\* Header gets the values of the lines before the first section marker only
\* and the Balance those of its own block.  Every amount of the text is a
\* number; a header with one RaschSchet line gets that line's value as a str.
C20_HeaderSpan ==
    (op = "Statement.from_text" /\ src.self.balance.t = "obj"
        /\ src.self.documents.t = "list" /\ src.self.documents.items # <<>>
        /\ ~LacksAmount(src.self))
        => /\ res.t = "stmt"
           /\ res.header.f.filter_date_since = src.self.header.f.filter_date_since
           /\ res.header.f.filter_date_till = src.self.header.f.filter_date_till
           /\ res.header.f.filter_account_numbers =
                (IF HasOneAccount(src.self)
                 THEN src.self.header.f.filter_account_numbers.items[1]
                 ELSE src.self.header.f.filter_account_numbers)
           /\ res.header.f.receiver = src.self.header.f.receiver
           /\ res.balance.f.date_since = src.self.balance.f.date_since
           /\ res.balance.f.date_till = src.self.balance.f.date_till
           /\ res.balance.f.account_number = src.self.balance.f.account_number

\* a text was parsed whose header has no Poluchatel line while its document
\* has one, and whose header and balance carry different dates and accounts
C20_Witness ==
    /\ op = "Statement.from_text"
    /\ res.t = "stmt"
    /\ res.header.f.receiver = None
    /\ res.documents.items[1].f.receiver.f.name # None
    /\ res.header.f.filter_date_since.t = "date"
    /\ res.balance.f.date_since.t = "date"
    /\ res.header.f.filter_date_since # res.balance.f.date_since
    /\ res.header.f.filter_account_numbers.t = "list"
    /\ res.balance.f.account_number.t = "str"

-----------------------------------------------------------------------------
\* C21 as stated: whenever t = s.to_text(validate=False) can be parsed,
\* Statement.from_text(t).to_text(validate=False) equals t; and the text of a
\* statement with a balance and documents whose header holds exactly one
\* filter account number, or where an amount is absent, can be parsed.
C21_FixedPoint ==
    /\ (op = "Statement.from_text.to_text") => res = src
    /\ (op = "Statement.from_text" /\ ~src.validate
            /\ Truthy(src.self.balance) /\ Truthy(src.self.documents)
            /\ (HasOneAccount(src.self) \/ LacksAmount(src.self)))
        => res.t = "stmt"

-----------------------------------------------------------------------------
\* C22 as stated: Statement.from_text of a text that has a header and a
\* Balance block, both of which parse, and no document span returns a
\* Statement whose documents list is empty, of which total_amount is zero.
C22_NoDocuments ==
    (op = "Statement.from_text"
        /\ RegexFindAll("Document", arg.s) = <<>>
        /\ HasBalanceTag(arg.s)
        /\ ~IsErr(Header_from_text(arg)) /\ ~IsErr(Balance_from_text(arg)))
        => /\ res.t = "stmt"
           /\ res.documents = List(<<>>)
           /\ total_amount(res) = [t |-> "int", n |-> 0]

-----------------------------------------------------------------------------
\* the key of a line: what stands before its first "="
KeyOf(line) == SubSeq(line, 1, NextSep(line, "=", 1) - 1)

\* the lines key=value of a span whose key is exactly the key of the field
ExactLines(field, lines) ==
    SelectSeq(lines, LAMBDA l : NextSep(l, "=", 1) <= Len(l) /\ KeyOf(l) = field.key)

\* what a field with at most one line of exactly its key is decoded to
ExactValue(field, lines) ==
    Let(ExactLines(field, lines), LAMBDA own :
        IF own = <<>> THEN None
        ELSE cast_from_text(field.type,
                            SubSeq(own[1], NextSep(own[1], "=", 1) + 1, Len(own[1]))))

\* the classes a document span is decoded by: "" stands for Document itself
SpanClasses == {<<"", "Document">>} \cup {<<Subsections[i], SubsectionClass(Subsections[i])>> : i \in 1..6}

\* C23: in a document span a field is set by the lines whose key is exactly its
\* key and by no other: the multiplicity error is raised exactly when two lines
\* carry the same key, and otherwise every field of the document and of its six
\* sub-sections holds the value of the line of its own key, or is absent when
\* there is none, whatever lines of longer or shorter keys the span holds.
C23_ExactKey ==
    (op = "Document.from_text" /\ Len(RegexFindAll("Document", arg.text.s)) = 1)
        => Let(Split(RegexFindAll("Document", arg.text.s)[1], NL), LAMBDA lines :
            IF \E c \in SpanClasses : \E i \in 1..Len(SchemaOf(c[2])) :
                    Len(ExactLines(SchemaOf(c[2])[i], lines)) >= 2
            THEN res = MultiplicityError
            ELSE /\ res.t = "list"
                 /\ Len(res.items) = 1
                 /\ \A c \in SpanClasses : \A i \in 1..Len(SchemaOf(c[2])) :
                        (IF c[1] = "" THEN res.items[1] ELSE res.items[1].f[c[1]])
                            .f[SchemaOf(c[2])[i].attr]
                        = ExactValue(SchemaOf(c[2])[i], lines))

\* a span with the lines Platelshchik1, Platelshchik and DataSpisano and no
\* Data line was parsed: each payer field has its own value, the date is absent
C23_Witness ==
    /\ op = "Document.from_text"
    /\ res.t = "list"
    /\ res.items[1].f.payer.f.name = Str(<<"p">>)
    /\ res.items[1].f.payer.f.l1_name = Str(<<"q">>)
    /\ res.items[1].f.payer.f.inn = None
    /\ res.items[1].f.payer.f.date_charged = Date(2021, 3, 15)
    /\ res.items[1].f.date = None

=============================================================================
